---- MODULE Spec2Model ----
(***************************************************************************)
(* Event-window analysis of MarketSpeed: the calendar aligner, the pre/post *)
(* window extractor and its statistics (daily_event_min.py,                 *)
(* daily_event_study.py), the event-day impact ratio (event_day_impact.py), *)
(* the row-producing loops of the two mains, and the sample aggregation,    *)
(* test gating and narrative rendering of basic_tests.py.                   *)
(*                                                                          *)
(* Numbers.  Calendar dates are integer day numbers.  A float is an         *)
(* extended rational <<num, den>> with den >= 0 in lowest terms: den = 0    *)
(* encodes the non-finite doubles, <<0,0>> being NaN and <<1,0>>, <<-1,0>>  *)
(* the infinities.  A volatility (a square root) is carried by its square,  *)
(* the sample variance.  An Optional value is <<>> (None) or <<v>>.         *)
(* Positions are 0-based as in the source; sequences are 1-based.           *)
(***************************************************************************)
EXTENDS Integers, Sequences, FiniteSets, TLC

\* ---------------------------------------------------------------- bounds
\* A result table read by basic_tests has at most MaxRows rows, of which at
\* most MaxNaNRows per (symbol, event) pair carry a NaN statistic.
MaxRows == 6
MaxNaNRows == 1
\* An enumerated events file holds at most MaxEvents events.
MaxEvents == 2
\* Trading dates of an enumerated price frame lie in 0..MaxDate.
MaxDate == 4
\* pre_days and post_days are drawn from 1..MaxDays.
MaxDays == 2

\* Daily returns of an enumerated price frame (in units of 0.01).
Rets == {-1, 0, 2}

\* ---------------------------------------------------------------- floats
None == <<>>
Some(v) == <<v>>

NaN == <<0, 0>>

Abs(n) == IF n < 0 THEN -n ELSE n

RECURSIVE Gcd(_, _)
Gcd(a, b) == IF b = 0 THEN a ELSE Gcd(b, a % b)

\* The float num/den (den may be 0 or negative): sign moved to the numerator,
\* lowest terms; x/0 is NaN for x = 0 and a signed infinity otherwise.
Float(num, den) ==
    IF den = 0
    THEN <<(IF num > 0 THEN 1 ELSE IF num < 0 THEN -1 ELSE 0), 0>>
    ELSE LET g == Gcd(Abs(num), Abs(den))
             s == IF den < 0 THEN -1 ELSE 1
         IN <<(s * num) \div g, (s * den) \div g>>

FromInt(n) == <<n, 1>>
IsNaN(x) == x = NaN
IsFinite(x) == x[2] # 0

\* IEEE comparisons: every comparison with NaN is false.
FLt(x, y) == ~IsNaN(x) /\ ~IsNaN(y) /\ x # y
             /\ IF x[2] = 0 /\ y[2] = 0 THEN x[1] < y[1]
                ELSE IF x[2] = 0 THEN x[1] < 0
                ELSE IF y[2] = 0 THEN y[1] > 0
                ELSE x[1] * y[2] < y[1] * x[2]
FGt(x, y) == FLt(y, x)

\* x - y; NaN when either is NaN or for inf - inf.
FSub(x, y) ==
    IF IsNaN(x) \/ IsNaN(y) THEN NaN
    ELSE IF x[2] = 0 /\ y[2] = 0 THEN (IF x[1] = y[1] THEN NaN ELSE x)
    ELSE IF x[2] = 0 THEN x
    ELSE IF y[2] = 0 THEN <<-y[1], 0>>
    ELSE Float(x[1] * y[2] - y[1] * x[2], x[2] * y[2])

\* x / y for finite x and finite y > 0 (the only division the source performs
\* on floats is guarded by baseline_abs > 0).
FDiv(x, y) == Float(x[1] * y[2], x[2] * y[1])

FAbs(x) == <<Abs(x[1]), x[2]>>

\* ---------------------------------------------------------------- frames
\* A price frame: its column names and its rows, ordered by strictly
\* increasing date (data_loader.fetch_stooq sorts the index before caching).
RECURSIVE Ascending(_)
Ascending(S) ==
    IF S = {} THEN <<>>
    ELSE LET m == CHOOSE x \in S : \A y \in S : x <= y
         IN <<m>> \o Ascending(S \ {m})

Frame(S, f, cols) ==
    [columns |-> cols,
     rows |-> [i \in 1..Cardinality(S) |->
                 [date |-> Ascending(S)[i], ret |-> f[Ascending(S)[i]]]]]

Index(price_df) == [i \in 1..Len(price_df.rows) |-> price_df.rows[i].date]

\* element at 0-based position i, a negative i counting from the end
At(s, i) == IF i < 0 THEN s[Len(s) + i + 1] ELSE s[i + 1]

\* s[lo:hi], Python slice with 0 <= lo and hi <= len(s)
Slice(s, lo, hi) == IF hi <= lo THEN <<>> ELSE SubSeq(s, lo + 1, hi)

Max(a, b) == IF a >= b THEN a ELSE b
Min(a, b) == IF a <= b THEN a ELSE b

\* ---------------------------------------------------------------- aligner
\* Index.get_indexer([target], method="pad"): position of the last label
\* <= target, -1 when there is none.
PadIndexer(idx, target) ==
    LET le == {i \in 0..(Len(idx) - 1) : At(idx, i) <= target}
    IN IF le = {} THEN -1 ELSE CHOOSE i \in le : \A j \in le : j <= i

\* Index.get_indexer([target], method="backfill"): position of the first
\* label >= target, -1 when there is none.
BackfillIndexer(idx, target) ==
    LET ge == {i \in 0..(Len(idx) - 1) : At(idx, i) >= target}
    IN IF ge = {} THEN -1 ELSE CHOOSE i \in ge : \A j \in ge : i <= j

\* Mutant of NearestIndexer: the pad position also wins a tie (<=, the rule
\* pandas applies only to a non-increasing index).
NearestIndexerTieLeft(idx, target) ==
    IF Len(idx) = 0 THEN -1
    ELSE LET left == PadIndexer(idx, target)
             right == BackfillIndexer(idx, target)
             left_distance == Abs(target - At(idx, left))
             right_distance == Abs(target - At(idx, right))
         IN IF left_distance <= right_distance \/ right = -1
            THEN left ELSE right

\* Mutant of NearestIndexer: method="pad" in place of method="nearest".
NearestIndexerPad(idx, target) ==
    IF Len(idx) = 0 THEN -1
    ELSE LET left == PadIndexer(idx, target)
             right == BackfillIndexer(idx, target)
         IN IF left # -1 THEN left ELSE right

\* Index.get_indexer([target], method="nearest") on a monotonic increasing
\* index: the pad position when its distance is strictly smaller or there is
\* no backfill position, else the backfill position; -1 on an empty index.
\* The distance of a -1 position is taken to the last label (index -1).
NearestIndexer(idx, target) ==
    IF Len(idx) = 0 THEN -1
    ELSE LET left == PadIndexer(idx, target)
             right == BackfillIndexer(idx, target)
             left_distance == Abs(target - At(idx, left))
             right_distance == Abs(target - At(idx, right))
         IN IF left_distance < right_distance \/ right = -1
            THEN left ELSE right

\* Index.get_loc(label) on a unique index: the label's position.
GetLoc(idx, label) == CHOOSE i \in 0..(Len(idx) - 1) : At(idx, i) = label

\* daily_event_min.nearest_trading_pos
nearest_trading_pos(idx, event_date) ==
    IF Len(idx) = 0
    THEN None    \* idx[[-1]] raises IndexError, caught by the except clause
    ELSE LET nearest == <<At(idx, NearestIndexer(idx, event_date))>>
         IN IF Len(nearest) = 0 THEN None
            ELSE Some(GetLoc(idx, nearest[1]))

\* event_day_impact.nearest_trading_pos
impact_nearest_trading_pos(idx, event_date) ==
    IF Len(idx) = 0
    THEN None
    ELSE LET nearest == <<At(idx, NearestIndexer(idx, event_date))>>
         IN IF Len(nearest) = 0 THEN None
            ELSE Some(GetLoc(idx, nearest[1]))

\* daily_event_study.nearest_pos
nearest_pos(index, when) ==
    IF Len(index) = 0
    THEN None
    ELSE LET nearest == <<At(index, NearestIndexer(index, when))>>
         IN IF Len(nearest) = 0 THEN None
            ELSE Some(GetLoc(index, nearest[1]))

\* ---------------------------------------------------------------- statistics
RECURSIVE SumSeq(_)
SumSeq(xs) == IF xs = <<>> THEN 0 ELSE Head(xs) + SumSeq(Tail(xs))

RetCol(rows) == [i \in 1..Len(rows) |-> rows[i].ret]
Squares(xs) == [i \in 1..Len(xs) |-> xs[i] * xs[i]]
AbsCol(xs) == [i \in 1..Len(xs) |-> Abs(xs[i])]

\* Series.mean(): the arithmetic mean (NaN for no observation).
Mean(xs) == Float(SumSeq(xs), Len(xs))

\* Mutant of Std: the population variance (ddof=0), 0 for one observation.
StdPopulation(xs) ==
    LET n == Len(xs)
    IN Float(n * SumSeq(Squares(xs)) - SumSeq(xs) * SumSeq(xs), n * n)

\* Series.std(ddof=1), carried by its square: the sample variance
\* sum((x - mean)^2) / (n - 1) = (n*sum(x^2) - sum(x)^2) / (n*(n - 1)),
\* which is 0/0 = NaN for a single observation (pandas returns NaN there and
\* does not raise).
Std(xs) ==
    LET n == Len(xs)
    IN Float(n * SumSeq(Squares(xs)) - SumSeq(xs) * SumSeq(xs), n * (n - 1))

\* post_vol - pre_vol, a difference of two square roots, carried by the pair
\* of the squares <<post_vol^2, pre_vol^2>>; NaN operands make it NaN.
VolNaN == <<NaN, NaN>>
VolSub(post_vol, pre_vol) ==
    IF IsNaN(post_vol) \/ IsNaN(pre_vol) THEN VolNaN ELSE <<post_vol, pre_vol>>

\* xs in ascending order
RECURSIVE Insert(_, _)
Insert(x, sorted) ==
    IF sorted = <<>> THEN <<x>>
    ELSE IF x <= Head(sorted) THEN <<x>> \o sorted
    ELSE <<Head(sorted)>> \o Insert(x, Tail(sorted))

RECURSIVE SortAsc(_)
SortAsc(xs) == IF xs = <<>> THEN <<>> ELSE Insert(Head(xs), SortAsc(Tail(xs)))

\* Series.median(): the middle value, or the mean of the two middle values.
Median(xs) ==
    LET n == Len(xs)
        s == SortAsc(xs)
    IN IF n = 0 THEN NaN
       ELSE IF n % 2 = 1 THEN FromInt(s[(n + 1) \div 2])
       ELSE Float(s[n \div 2] + s[n \div 2 + 1], 2)

\* DataFrame.empty: no rows or no columns
Empty(price_df) == Len(price_df.rows) = 0 \/ price_df.columns = {}

\* ---------------------------------------------------------------- daily_event_min.pre_post_stats
\* pos: the aligned position, None on an early return before alignment
pre_post_pos(price_df, event_date) ==
    IF Empty(price_df) \/ "ret" \notin price_df.columns THEN None
    ELSE nearest_trading_pos(Index(price_df), event_date)

\* Mutant of pre_window: the slice starts and ends one row later, so that it
\* holds the event day.
pre_window_with_event_day(price_df, pos, pre_days) ==
    Slice(price_df.rows, Max(0, pos - pre_days + 1), pos + 1)

\* pre = price_df.iloc[max(0, pos - pre_days) : pos]
pre_window(price_df, pos, pre_days) ==
    Slice(price_df.rows, Max(0, pos - pre_days), pos)

\* Mutant of post_window: the slice starts at the event day.
post_window_from_event_day(price_df, pos, post_days) ==
    Slice(price_df.rows, pos, Min(Len(price_df.rows), pos + post_days))

\* post = price_df.iloc[pos + 1 : min(len(price_df), pos + 1 + post_days)]
post_window(price_df, pos, post_days) ==
    Slice(price_df.rows, pos + 1, Min(Len(price_df.rows), pos + 1 + post_days))

\* the returned dict of the six statistics of two non-empty windows
window_row(pre, post) ==
    LET pre_vol == Std(RetCol(pre))
        post_vol == Std(RetCol(post))
        pre_mean == Mean(RetCol(pre))
        post_mean == Mean(RetCol(post))
    IN [pre_vol |-> pre_vol,
        post_vol |-> post_vol,
        vol_delta |-> VolSub(post_vol, pre_vol),
        pre_mean |-> pre_mean,
        post_mean |-> post_mean,
        ret_delta |-> FSub(post_mean, pre_mean)]

pre_post_stats(price_df, event_date, pre_days, post_days) ==
    LET pos == pre_post_pos(price_df, event_date)
    IN IF pos = None THEN None
       ELSE IF pos[1] = 0 THEN None
       ELSE LET pre == pre_window(price_df, pos[1], pre_days)
                post == post_window(price_df, pos[1], post_days)
            IN IF pre = <<>> \/ post = <<>> THEN None
               ELSE Some(window_row(pre, post))

\* ---------------------------------------------------------------- event_day_impact.event_day_stats
BASELINE_WINDOW == 20

event_day_pos(price_df, event_date) ==
    IF Empty(price_df) \/ "ret" \notin price_df.columns THEN None
    ELSE impact_nearest_trading_pos(Index(price_df), event_date)

\* Mutant of baseline_window: every prior observation is used.
baseline_window_uncapped(price_df, pos) == Slice(price_df.rows, 0, pos)

\* pre = price_df.iloc[max(0, pos - 20) : pos]["ret"]
baseline_window(price_df, pos) ==
    Slice(price_df.rows, Max(0, pos - BASELINE_WINDOW), pos)

\* Mutant of impact_ratio: the division is not guarded.
impact_ratio_unguarded(ret_t0, baseline_abs) == FDiv(FAbs(ret_t0), baseline_abs)

\* impact_ratio = abs(ret_t0) / baseline_abs if baseline_abs > 0 else nan
impact_ratio(ret_t0, baseline_abs) ==
    IF FGt(baseline_abs, FromInt(0)) THEN FDiv(FAbs(ret_t0), baseline_abs) ELSE NaN

event_day_stats(price_df, event_date) ==
    LET pos == event_day_pos(price_df, event_date)
    IN IF pos = None THEN None
       ELSE IF pos[1] = 0 THEN None
       ELSE LET ret_t0 == FromInt(At(price_df.rows, pos[1]).ret)
                pre == baseline_window(price_df, pos[1])
            IN IF pre = <<>> THEN None
               ELSE LET baseline_abs == Median(AbsCol(RetCol(pre)))
                    IN Some([event_day_ret |-> ret_t0,
                             event_day_abs |-> FAbs(ret_t0),
                             baseline_abs20 |-> baseline_abs,
                             impact_ratio |-> impact_ratio(ret_t0, baseline_abs)])

\* ---------------------------------------------------------------- daily_event_study.window_stats
\* Mutant of window_stats: the windows are not tested for emptiness.
window_stats_unchecked(price_df, event_date, pre_days, post_days) ==
    IF Empty(price_df) \/ "ret" \notin price_df.columns THEN None
    ELSE LET pos == nearest_pos(Index(price_df), event_date)
         IN IF pos = None THEN None
            ELSE Some(window_row(
                     Slice(price_df.rows, Max(0, pos[1] - pre_days), pos[1]),
                     Slice(price_df.rows, pos[1] + 1,
                           Min(Len(price_df.rows), pos[1] + 1 + post_days))))

window_stats(price_df, event_date, pre_days, post_days) ==
    IF Empty(price_df) \/ "ret" \notin price_df.columns THEN None
    ELSE LET pos == nearest_pos(Index(price_df), event_date)
         IN IF pos = None THEN None
            ELSE LET pre == Slice(price_df.rows, Max(0, pos[1] - pre_days), pos[1])
                     post == Slice(price_df.rows, pos[1] + 1,
                                   Min(Len(price_df.rows), pos[1] + 1 + post_days))
                 IN IF pre = <<>> \/ post = <<>> THEN None
                    ELSE Some(window_row(pre, post))

\* ---------------------------------------------------------------- basic_tests: narrative
MIN_N == 5
ALPHA == Float(5, 100)

\* A narrative sentence: the template chosen, the direction wording it
\* carries ("" when the template has none), the sample size and the
\* statistics <<mean, t, p>> it prints (None when it prints none).
Sentence(symbol, event, template, direction, n, stats) ==
    [symbol |-> symbol, event |-> event, template |-> template,
     direction |-> direction, n |-> n, stats |-> stats]

\* Mutant of explain_vol_delta: sig = p <= ALPHA.
explain_vol_delta_le(symbol, event, mean_val, n, t, p) ==
    IF IsNaN(mean_val)
    THEN Sentence(symbol, event, "Not enough data", "", None, None)
    ELSE LET direction == IF FGt(mean_val, FromInt(0)) THEN "higher"
                          ELSE IF FLt(mean_val, FromInt(0)) THEN "lower"
                          ELSE "no change"
             sig == FLt(p, ALPHA) \/ p = ALPHA
         IN IF sig
            THEN Sentence(symbol, event, "Statistically significant change",
                          direction, Some(n), Some(<<mean_val, t, p>>))
            ELSE Sentence(symbol, event, "Not statistically different from zero",
                          "", Some(n), Some(<<mean_val, t, p>>))

explain_vol_delta(symbol, event, mean_val, n, t, p) ==
    IF IsNaN(mean_val)
    THEN Sentence(symbol, event, "Not enough data", "", None, None)
    ELSE LET direction == IF FGt(mean_val, FromInt(0)) THEN "higher"
                          ELSE IF FLt(mean_val, FromInt(0)) THEN "lower"
                          ELSE "no change"
             sig == FLt(p, ALPHA)
         IN IF sig
            THEN Sentence(symbol, event, "Statistically significant change",
                          direction, Some(n), Some(<<mean_val, t, p>>))
            ELSE Sentence(symbol, event, "Not statistically different from zero",
                          "", Some(n), Some(<<mean_val, t, p>>))

explain_impact_ratio(symbol, event, mean_ratio, n, t, p) ==
    IF IsNaN(mean_ratio)
    THEN Sentence(symbol, event, "Not enough data", "", None, None)
    ELSE LET dir_text == IF FGt(mean_ratio, FromInt(1)) THEN "larger-than-usual"
                         ELSE IF FLt(mean_ratio, FromInt(1)) THEN "smaller-than-usual"
                         ELSE "typical-sized"
             sig == FLt(p, ALPHA)
         IN IF sig
            THEN Sentence(symbol, event, "Statistically significant difference",
                          dir_text, Some(n), Some(<<mean_ratio, t, p>>))
            ELSE Sentence(symbol, event, "Not statistically different from typical day",
                          "", Some(n), Some(<<mean_ratio, t, p>>))


\* ---------------------------------------------------------------- basic_tests: aggregation and tests
\* The symbols and event names of the model, ascending in Python's str order
\* (the order DataFrame.groupby sorts its keys by).
Names == <<"AAPL.US", "CPI", "NFP", "SPY.US">>
StrRank(x) == CHOOSE i \in 1..Len(Names) : Names[i] = x
StrLt(a, b) == StrRank(a) < StrRank(b)
\* tuple order of the group keys (symbol, event)
KeyLt(k1, k2) == StrLt(k1[1], k2[1]) \/ (k1[1] = k2[1] /\ StrLt(k1[2], k2[2]))

FAdd(x, y) == Float(x[1] * y[2] + y[1] * x[2], x[2] * y[2])

RECURSIVE FSum(_)
FSum(xs) == IF xs = <<>> THEN FromInt(0) ELSE FAdd(Head(xs), FSum(Tail(xs)))

\* Series.mean() of finite floats
FMean(xs) == Float(FSum(xs)[1], FSum(xs)[2] * Len(xs))

\* df.dropna(subset=[col])
DropNa(df, col) == SelectSeq(df, LAMBDA r : ~IsNaN(r[col]))

\* the keys of df.groupby(["symbol", "event"]), in iteration (ascending) order
GroupKeys(df) == {<<df[i].symbol, df[i].event>> : i \in 1..Len(df)}

RECURSIVE SortKeys(_)
SortKeys(K) ==
    IF K = {} THEN <<>>
    ELSE LET m == CHOOSE k \in K : \A o \in K \ {k} : KeyLt(k, o)
         IN <<m>> \o SortKeys(K \ {m})

\* grp[col].astype(float).dropna(): the group's non-NaN values, in row order
GroupSample(df, key, col) ==
    LET grp == SelectSeq(df, LAMBDA r : r.symbol = key[1] /\ r.event = key[2])
        kept == DropNa(grp, col)
    IN [i \in 1..Len(kept) |-> kept[i][col]]

\* scipy.stats.ttest_1samp(x, popmean, nan_policy="omit"): the possible
\* (t, p).  A constant sample has a zero standard error: t = p = NaN when its
\* mean is popmean, else t is a signed infinity and p = 0.  Otherwise t has
\* the sign of mean - popmean (t = 0, p = 1 when they are equal), and the
\* Student-t tail, which the model does not evaluate, may put p on either
\* side of ALPHA: both outcomes are kept, each by one representative value.
TTest1Samp(x, popmean) ==
    LET m == FMean(x)
        constant == \A i \in 1..Len(x) : x[i] = x[1]
        sign == IF FGt(m, popmean) THEN 1 ELSE -1
    IN IF constant
       THEN IF m = popmean THEN {[t |-> NaN, p |-> NaN]}
            ELSE {[t |-> <<sign, 0>>, p |-> FromInt(0)]}
       ELSE IF m = popmean THEN {[t |-> FromInt(0), p |-> FromInt(1)]}
            ELSE {[t |-> FromInt(3 * sign), p |-> Float(1, 50)],
                  [t |-> FromInt(sign), p |-> Float(1, 2)]}

\* f"{sym} ({ev}): Not enough observations (n={len(x)})."
NotEnoughObservations(sym, ev, n) ==
    Sentence(sym, ev, "Not enough observations", "", Some(n), None)

\* Mutant of vol_delta_group: the gate is off by one (len(x) >= MIN_N - 1).
vol_delta_group_gate(df, key) ==
    LET x == GroupSample(df, key, "vol_delta")
    IN IF Len(x) >= MIN_N - 1
       THEN {[conclusion |-> explain_vol_delta(key[1], key[2], FMean(x), Len(x), r.t, r.p),
              ttest |-> Some([symbol |-> key[1], event |-> key[2],
                              x |-> x, popmean |-> FromInt(0)])]
             : r \in TTest1Samp(x, FromInt(0))}
       ELSE {[conclusion |-> NotEnoughObservations(key[1], key[2], Len(x)),
              ttest |-> None]}

\* One iteration of the loop of run_vol_delta_tests: the conclusion appended,
\* and the t-test it invoked (None when it invoked none).
vol_delta_group(df, key) ==
    LET x == GroupSample(df, key, "vol_delta")
    IN IF Len(x) >= MIN_N
       THEN {[conclusion |-> explain_vol_delta(key[1], key[2], FMean(x), Len(x), r.t, r.p),
              ttest |-> Some([symbol |-> key[1], event |-> key[2],
                              x |-> x, popmean |-> FromInt(0)])]
             : r \in TTest1Samp(x, FromInt(0))}
       ELSE {[conclusion |-> NotEnoughObservations(key[1], key[2], Len(x)),
              ttest |-> None]}

\* One iteration of the loop of run_impact_ratio_tests.
impact_ratio_group(df, key) ==
    LET x == GroupSample(df, key, "impact_ratio")
    IN IF Len(x) >= MIN_N
       THEN {[conclusion |-> explain_impact_ratio(key[1], key[2], FMean(x), Len(x), r.t, r.p),
              ttest |-> Some([symbol |-> key[1], event |-> key[2],
                              x |-> x, popmean |-> FromInt(1)])]
             : r \in TTest1Samp(x, FromInt(1))}
       ELSE {[conclusion |-> NotEnoughObservations(key[1], key[2], Len(x)),
              ttest |-> None]}

RECURSIVE VolDeltaLoop(_, _)
VolDeltaLoop(df, keys) ==
    IF keys = <<>> THEN {<<>>}
    ELSE {<<g>> \o rest : g \in vol_delta_group(df, Head(keys)),
                          rest \in VolDeltaLoop(df, Tail(keys))}

RECURSIVE ImpactRatioLoop(_, _)
ImpactRatioLoop(df, keys) ==
    IF keys = <<>> THEN {<<>>}
    ELSE {<<g>> \o rest : g \in impact_ratio_group(df, Head(keys)),
                          rest \in ImpactRatioLoop(df, Tail(keys))}

\* the keys of df.groupby(..., sort=False): in order of first appearance
RECURSIVE AppearanceKeys(_)
AppearanceKeys(df) ==
    IF df = <<>> THEN <<>>
    ELSE LET k == <<Head(df).symbol, Head(df).event>>
         IN <<k>> \o AppearanceKeys(SelectSeq(Tail(df),
                        LAMBDA r : <<r.symbol, r.event>> # k))

\* Mutant of run_vol_delta_tests: the groups are not sorted.
run_vol_delta_tests_unsorted(csv) ==
    LET df == DropNa(csv, "vol_delta")
    IN VolDeltaLoop(df, AppearanceKeys(df))

\* run_vol_delta_tests on the table read from PREPOST_CSV: the possible
\* sequences of loop iterations
run_vol_delta_tests(csv) ==
    LET df == DropNa(csv, "vol_delta")
    IN VolDeltaLoop(df, SortKeys(GroupKeys(df)))

\* run_impact_ratio_tests on the table read from IMPACT_CSV
run_impact_ratio_tests(csv) ==
    LET df == DropNa(csv, "impact_ratio")
    IN ImpactRatioLoop(df, SortKeys(GroupKeys(df)))

Conclusions(outcomes) == [i \in 1..Len(outcomes) |-> outcomes[i].conclusion]

RECURSIVE TTestCalls(_)
TTestCalls(outcomes) ==
    IF outcomes = <<>> THEN <<>>
    ELSE Head(outcomes).ttest \o TTestCalls(Tail(outcomes))

\* a line of the summary that is not a conclusion
TextLine(text) == Sentence("", "", text, "", None, None)

\* all_conc of basic_tests.main
AllConc(vol, imp) ==
    <<TextLine("Volatility (post - pre) results:")>> \o vol
    \o <<TextLine(""), TextLine("Event-day impact results:")>> \o imp

MissingFile(path, script) ==
    [type |-> "FileNotFoundError", path |-> path, run_first |-> script]


\* ---------------------------------------------------------------- the two mains
PRE_DAYS == 5
POST_DAYS == 5
MIN_EVENTS_TAIL == 20
IMPACT_EVENTS_TAIL == 30

\* discover_symbols: the symbols that have a cache file, sorted (Python's str
\* order, as in Names)
RECURSIVE SortSymbols(_)
SortSymbols(S) ==
    IF S = {} THEN <<>>
    ELSE LET m == CHOOSE x \in S : \A y \in S \ {x} : StrLt(x, y)
         IN <<m>> \o SortSymbols(S \ {m})

discover_symbols(data_dir) == SortSymbols(DOMAIN data_dir)

\* load_cached_price: the frame of the symbol's file after dropna()
load_cached_price(data_dir, symbol) == data_dir[symbol]

\* ev.sort_values("event_date"): the orders the (not stable) default sort may
\* return, events of the same date in any order; I holds the indices of the
\* events still to place.
RECURSIVE SortValues(_, _)
SortValues(ev, I) ==
    IF I = {} THEN {<<>>}
    ELSE LET first == {i \in I : \A j \in I : ev[i].event_date <= ev[j].event_date}
         IN UNION {{<<ev[i]>> \o rest : rest \in SortValues(ev, I \ {i})} : i \in first}

\* load_events() on an existing events file
load_events(events_file) == SortValues(events_file, 1..Len(events_file))

\* events.tail(n)
TailN(events, n) ==
    IF Len(events) <= n THEN events
    ELSE SubSeq(events, Len(events) - n + 1, Len(events))

\* the row appended for an accepted pair: symbol, event, event_date and **st
Row(sym, e, stats) ==
    [symbol |-> sym, event |-> e.event, event_date |-> e.event_date, st |-> stats[1]]

\* Mutant of AppendIfSt: the row is appended without the test of st.
AppendAlways(rows, sym, e, stats) ==
    Append(rows, [symbol |-> sym, event |-> e.event, event_date |-> e.event_date,
                  st |-> stats])

\* if st: rows.append({...})
AppendIfSt(rows, sym, e, stats) ==
    IF stats # None THEN Append(rows, Row(sym, e, stats)) ELSE rows


\* ================================================================ state
VARIABLES
    \* one call of a function of the engine on a price frame
    price_df, event_date, pre_days, post_days, called, pos, pre, post, st,
    \* one call of a narrative function of basic_tests
    explain_args, explained, sentence,
    \* basic_tests.main: the two result tables (None: the file is absent), the
    \* summary file, the console, the locals of main, the t-tests invoked so
    \* far, the position in main and the exception it raised
    prepost_csv, impact_csv, summary_txt, printed, vol_conc, imp_conc,
    ttest_calls, tests_pc, tests_error,
    \* daily_event_min.main and event_day_impact.main: which script runs, the
    \* cache directory (symbol -> frame), the events file (None: absent), the
    \* locals symbols, events_tail, df and rows, the loop positions, the pairs
    \* handed to the statistics function so far, the locals of the last such
    \* call, the position in main and the result file written
    script, data_dir, events_file, symbols, events_tail, df, rows, sym_i, ev_j,
    attempted, last, main_pc, out_csv

fnVars == <<price_df, event_date, pre_days, post_days, called, pos, pre, post, st>>
explainVars == <<explain_args, explained, sentence>>

testsVars == <<prepost_csv, impact_csv, summary_txt, printed, vol_conc, imp_conc,
               ttest_calls, tests_pc, tests_error>>

mainVars == <<script, data_dir, events_file, symbols, events_tail, df, rows, sym_i,
              ev_j, attempted, last, main_pc, out_csv>>

vars == <<fnVars, explainVars, testsVars, mainVars>>

notFn == <<explainVars, testsVars, mainVars>>
notExplain == <<fnVars, testsVars, mainVars>>
notTests == <<fnVars, explainVars, mainVars>>
notMain == <<fnVars, explainVars, testsVars>>

\* a part of the state that a specification does not use stays idle
FnIdle ==
    /\ price_df = [columns |-> {}, rows |-> <<>>]
    /\ event_date = 0
    /\ pre_days = 0
    /\ post_days = 0
    /\ called = "idle"
    /\ pos = None
    /\ pre = <<>>
    /\ post = <<>>
    /\ st = None

ExplainIdle ==
    /\ explain_args = <<>>
    /\ explained = "idle"
    /\ sentence = None

TestsIdle ==
    /\ prepost_csv = None
    /\ impact_csv = None
    /\ summary_txt = None
    /\ printed = <<>>
    /\ vol_conc = <<>>
    /\ imp_conc = <<>>
    /\ ttest_calls = <<>>
    /\ tests_pc = "idle"
    /\ tests_error = None

MainIdle ==
    /\ script = "idle"
    /\ data_dir = <<>>
    /\ events_file = None
    /\ symbols = <<>>
    /\ events_tail = <<>>
    /\ df = [columns |-> {}, rows |-> <<>>]
    /\ rows = <<>>
    /\ sym_i = 0
    /\ ev_j = 0
    /\ attempted = <<>>
    /\ last = None
    /\ main_pc = "idle"
    /\ out_csv = None

\* ---------------------------------------------------------------- inputs
Dates == 0..MaxDate
EventDates == (-1)..(MaxDate + 2)
Days == 1..MaxDays

\* The frames load_cached_price can return: every strictly increasing date
\* index within Dates with returns in Rets, and frames that have neither a
\* 'close' nor a 'ret' column.
EnumFrames ==
    UNION {{Frame(S, f, {"close", "ret"}) : f \in [S -> Rets]} : S \in SUBSET Dates}
    \cup {Frame(S, [d \in S |-> 0], {"open"}) : S \in SUBSET Dates}

\* Five prior returns 0.01, -0.01, 0.02, -0.02, 0.01 and an event-day return
\* of 0.03 on the last trading date.
ExampleFrame ==
    [columns |-> {"close", "ret"},
     rows |-> << [date |-> 0, ret |-> 1], [date |-> 1, ret |-> -1],
                 [date |-> 2, ret |-> 2], [date |-> 3, ret |-> -2],
                 [date |-> 4, ret |-> 1], [date |-> 5, ret |-> 3] >>]

Frames == EnumFrames \cup {ExampleFrame}

\* ---------------------------------------------------------------- calls
FnInit ==
    /\ price_df \in Frames
    /\ event_date \in EventDates
    /\ pre_days = 0
    /\ post_days = 0
    /\ called = "none"
    /\ pos = None
    /\ pre = <<>>
    /\ post = <<>>
    /\ st = None
    /\ ExplainIdle
    /\ TestsIdle
    /\ MainIdle

CallNearestTradingPos ==
    /\ called = "none"
    /\ called' = "daily_event_min.nearest_trading_pos"
    /\ pos' = nearest_trading_pos(Index(price_df), event_date)
    /\ UNCHANGED <<price_df, event_date, pre_days, post_days, pre, post, st, notFn>>

CallImpactNearestTradingPos ==
    /\ called = "none"
    /\ called' = "event_day_impact.nearest_trading_pos"
    /\ pos' = impact_nearest_trading_pos(Index(price_df), event_date)
    /\ UNCHANGED <<price_df, event_date, pre_days, post_days, pre, post, st, notFn>>

CallNearestPos ==
    /\ called = "none"
    /\ called' = "daily_event_study.nearest_pos"
    /\ pos' = nearest_pos(Index(price_df), event_date)
    /\ UNCHANGED <<price_df, event_date, pre_days, post_days, pre, post, st, notFn>>

\* pre_post_stats(price_df, event_date, pre_days, post_days); pos, pre and
\* post are its locals at the return.
CallPrePostStats ==
    /\ called = "none"
    /\ called' = "pre_post_stats"
    /\ \E a \in Days, b \in Days :
         /\ pre_days' = a
         /\ post_days' = b
         /\ pos' = pre_post_pos(price_df, event_date)
         /\ pre' = IF pos' = None \/ pos' = Some(0) THEN <<>>
                   ELSE pre_window(price_df, pos'[1], a)
         /\ post' = IF pos' = None \/ pos' = Some(0) THEN <<>>
                    ELSE post_window(price_df, pos'[1], b)
         /\ st' = pre_post_stats(price_df, event_date, a, b)
    /\ UNCHANGED <<price_df, event_date, notFn>>

\* event_day_stats(price_df, event_date); pos and pre are its locals at the
\* return.
CallEventDayStats ==
    /\ called = "none"
    /\ called' = "event_day_stats"
    /\ pos' = event_day_pos(price_df, event_date)
    /\ pre' = IF pos' = None \/ pos' = Some(0) THEN <<>>
              ELSE baseline_window(price_df, pos'[1])
    /\ st' = event_day_stats(price_df, event_date)
    /\ UNCHANGED <<price_df, event_date, pre_days, post_days, post, notFn>>

CallWindowStats ==
    /\ called = "none"
    /\ called' = "window_stats"
    /\ \E a \in Days, b \in Days :
         /\ pre_days' = a
         /\ post_days' = b
         /\ st' = window_stats(price_df, event_date, a, b)
    /\ UNCHANGED <<price_df, event_date, pos, pre, post, notFn>>

FnNext ==
    \/ CallNearestTradingPos
    \/ CallImpactNearestTradingPos
    \/ CallNearestPos
    \/ CallPrePostStats
    \/ CallEventDayStats
    \/ CallWindowStats

FnSpec == FnInit /\ [][FnNext]_vars

\* ---------------------------------------------------------------- calls on long frames
MaxExtraRows == 3

\* the return of the i-th row (from 0) of a long frame: growing, or
\* scattered around 0
LongPatterns == {"growing", "scattered"}
LongRet(pattern, i) ==
    IF pattern = "growing" THEN i + 1 ELSE ((7 * i + 3) % 11) - 5

\* frames of up to BASELINE_WINDOW + MaxExtraRows trading dates, on every
\* calendar date or on every other one
LongFrames ==
    {Frame({stride * i : i \in 0..(n - 1)},
           [d \in {stride * i : i \in 0..(n - 1)} |-> LongRet(pattern, d \div stride)],
           {"close", "ret"})
     : n \in 1..(BASELINE_WINDOW + MaxExtraRows), stride \in {1, 2},
       pattern \in LongPatterns}

LongInit ==
    /\ price_df \in LongFrames
    /\ event_date \in (-1)..(At(Index(price_df), Len(price_df.rows) - 1) + 2)
    /\ pre_days = 0
    /\ post_days = 0
    /\ called = "none"
    /\ pos = None
    /\ pre = <<>>
    /\ post = <<>>
    /\ st = None
    /\ ExplainIdle
    /\ TestsIdle
    /\ MainIdle

LongSpec == LongInit /\ [][FnNext]_vars

\* ---------------------------------------------------------------- narrative calls
ExplainMeans == {NaN} \cup {Float(k, 2) : k \in (-2)..4}
ExplainNs == MIN_N..(MIN_N + 1)
ExplainTs == {NaN, <<-1, 0>>, <<1, 0>>, FromInt(-3), FromInt(0), FromInt(3)}
ExplainPs == {NaN, FromInt(0), Float(1, 50), Float(1, 20), Float(1, 10), FromInt(1)}

ExplainInit ==
    /\ explain_args \in [symbol : {"SPY.US"}, event : {"CPI"},
                         mean : ExplainMeans, n : ExplainNs,
                         t : ExplainTs, p : ExplainPs]
    /\ explained = "none"
    /\ sentence = None
    /\ FnIdle
    /\ TestsIdle
    /\ MainIdle

CallExplainVolDelta ==
    /\ explained = "none"
    /\ explained' = "explain_vol_delta"
    /\ sentence' = Some(explain_vol_delta(explain_args.symbol, explain_args.event,
                                          explain_args.mean, explain_args.n,
                                          explain_args.t, explain_args.p))
    /\ UNCHANGED <<explain_args, notExplain>>

CallExplainImpactRatio ==
    /\ explained = "none"
    /\ explained' = "explain_impact_ratio"
    /\ sentence' = Some(explain_impact_ratio(explain_args.symbol, explain_args.event,
                                             explain_args.mean, explain_args.n,
                                             explain_args.t, explain_args.p))
    /\ UNCHANGED <<explain_args, notExplain>>

ExplainNext ==
    \/ CallExplainVolDelta
    \/ CallExplainImpactRatio

ExplainSpec == ExplainInit /\ [][ExplainNext]_vars


\* ---------------------------------------------------------------- basic_tests.main
PREPOST_CSV == "figures/daily_event_min_results.csv"
IMPACT_CSV == "figures/event_day_impact_results.csv"

TableKeys == SortKeys({"AAPL.US", "SPY.US"} \X {"CPI", "NFP"})

\* The statistic of the i-th valid row of a pair: a constant column, a
\* varying non-negative one, a varying non-positive one.
Shapes == {"constant", "up", "down"}
StatValue(shape, i) ==
    IF shape = "constant" THEN FromInt(1)
    ELSE IF shape = "up" THEN FromInt((i * i) % 3)
    ELSE FromInt(-(i % 2))

\* How many valid and how many NaN rows each pair has.
Profiles ==
    {pr \in [valid : [1..Len(TableKeys) -> 0..MaxRows],
             nans : [1..Len(TableKeys) -> 0..MaxNaNRows]] :
        SumSeq(pr.valid) + SumSeq(pr.nans) <= MaxRows}

Reverse(s) == [i \in 1..Len(s) |-> s[Len(s) + 1 - i]]

\* The rows of a table with the given profile, pair after pair, the valid
\* rows of a pair before its NaN rows; col names the statistic's column.
RECURSIVE TableRows(_, _, _, _)
TableRows(pr, shape, col, k) ==
    IF k > Len(TableKeys) THEN <<>>
    ELSE LET row(v) == [c \in {"symbol", "event", col} |->
                          IF c = "symbol" THEN TableKeys[k][1]
                          ELSE IF c = "event" THEN TableKeys[k][2] ELSE v]
         IN [i \in 1..pr.valid[k] |-> row(StatValue(shape, i))]
            \o [i \in 1..pr.nans[k] |-> row(NaN)]
            \o TableRows(pr, shape, col, k + 1)

TestsInit ==
    /\ \E pr \in Profiles, shape \in Shapes, reversed \in BOOLEAN :
          LET order(t) == IF reversed THEN Reverse(t) ELSE t
          IN /\ prepost_csv \in {None, Some(order(TableRows(pr, shape, "vol_delta", 1)))}
             /\ impact_csv \in {None, Some(order(TableRows(pr, shape, "impact_ratio", 1)))}
    /\ summary_txt \in {None, Some(<<TextLine("summary of an earlier run")>>)}
    /\ printed = <<>>
    /\ vol_conc = <<>>
    /\ imp_conc = <<>>
    /\ ttest_calls = <<>>
    /\ tests_pc = "main"
    /\ tests_error = None
    /\ FnIdle
    /\ ExplainIdle
    /\ MainIdle

\* vol_conc = run_vol_delta_tests()
MainRunVolDeltaTests ==
    /\ tests_pc = "main"
    /\ IF prepost_csv = None
       THEN /\ tests_pc' = "raised"
            /\ tests_error' = Some(MissingFile(PREPOST_CSV, "daily_event_min.py"))
            /\ UNCHANGED <<vol_conc, ttest_calls>>
       ELSE /\ \E outcomes \in run_vol_delta_tests(prepost_csv[1]) :
                 /\ vol_conc' = Conclusions(outcomes)
                 /\ ttest_calls' = ttest_calls \o TTestCalls(outcomes)
            /\ tests_pc' = "vol_done"
            /\ UNCHANGED tests_error
    /\ UNCHANGED <<prepost_csv, impact_csv, summary_txt, printed, imp_conc, notTests>>

\* Mutant of MainRunImpactRatioTests: an absent table counts as an empty one.
MainRunImpactRatioTestsLenient ==
    /\ tests_pc = "vol_done"
    /\ IF impact_csv = None
       THEN imp_conc' = <<>> /\ UNCHANGED ttest_calls
       ELSE \E outcomes \in run_impact_ratio_tests(impact_csv[1]) :
               /\ imp_conc' = Conclusions(outcomes)
               /\ ttest_calls' = ttest_calls \o TTestCalls(outcomes)
    /\ tests_pc' = "impact_done"
    /\ UNCHANGED tests_error
    /\ UNCHANGED <<prepost_csv, impact_csv, summary_txt, printed, vol_conc, notTests>>

\* imp_conc = run_impact_ratio_tests()
MainRunImpactRatioTests ==
    /\ tests_pc = "vol_done"
    /\ IF impact_csv = None
       THEN /\ tests_pc' = "raised"
            /\ tests_error' = Some(MissingFile(IMPACT_CSV, "event_day_impact.py"))
            /\ UNCHANGED <<imp_conc, ttest_calls>>
       ELSE /\ \E outcomes \in run_impact_ratio_tests(impact_csv[1]) :
                 /\ imp_conc' = Conclusions(outcomes)
                 /\ ttest_calls' = ttest_calls \o TTestCalls(outcomes)
            /\ tests_pc' = "impact_done"
            /\ UNCHANGED tests_error
    /\ UNCHANGED <<prepost_csv, impact_csv, summary_txt, printed, vol_conc, notTests>>

\* the rest of main: all_conc is printed and written to SUMMARY_TXT
MainReport ==
    /\ tests_pc = "impact_done"
    /\ printed' = AllConc(vol_conc, imp_conc)
                  \o <<TextLine("Saved figures/basic_tests_summary.txt")>>
    /\ summary_txt' = Some(AllConc(vol_conc, imp_conc))
    /\ tests_pc' = "done"
    /\ UNCHANGED <<prepost_csv, impact_csv, vol_conc, imp_conc, ttest_calls,
                   tests_error, notTests>>

TestsNext ==
    \/ MainRunVolDeltaTests
    \/ MainRunImpactRatioTests
    \/ MainReport

TestsSpec == TestsInit /\ [][TestsNext]_vars


\* ---------------------------------------------------------------- basic_tests.main on tables in any row order
MaxTableLen == 5

OrderKeys == <<<<"AAPL.US", "NFP">>, <<"SPY.US", "CPI">>, <<"AAPL.US", "CPI">>>>
OrderValues == {NaN, FromInt(1)}

\* every sequence of at most MaxTableLen rows over the keys and values: a
\* set of tables closed under permutation of the rows
OrderShapes == UNION {[1..n -> (1..Len(OrderKeys)) \X OrderValues] : n \in 0..MaxTableLen}

OrderTable(shape, col) ==
    [i \in 1..Len(shape) |->
        [c \in {"symbol", "event", col} |->
            IF c = "symbol" THEN OrderKeys[shape[i][1]][1]
            ELSE IF c = "event" THEN OrderKeys[shape[i][1]][2] ELSE shape[i][2]]]

OrderInit ==
    /\ \E shape \in OrderShapes :
          /\ prepost_csv = Some(OrderTable(shape, "vol_delta"))
          /\ impact_csv = Some(OrderTable(shape, "impact_ratio"))
    /\ summary_txt = None
    /\ printed = <<>>
    /\ vol_conc = <<>>
    /\ imp_conc = <<>>
    /\ ttest_calls = <<>>
    /\ tests_pc = "main"
    /\ tests_error = None
    /\ FnIdle
    /\ ExplainIdle
    /\ MainIdle

OrderSpec == OrderInit /\ [][TestsNext]_vars

\* ---------------------------------------------------------------- daily_event_min.main, event_day_impact.main
MainSymbols == {"AAPL.US", "SPY.US"}

\* the return of the trading date d in the frames of the cache directory
MainRet(d) == ((3 * d + 1) % 5) - 2

MainFrames ==
    {Frame(S, [d \in S |-> MainRet(d)], {"close", "ret"}) : S \in SUBSET Dates}
    \cup {Frame(Dates, [d \in Dates |-> 0], {"open"})}

\* an empty cache file and one with every date
RefFrames ==
    {Frame({}, <<>>, {"close", "ret"}),
     Frame(Dates, [d \in Dates |-> MainRet(d)], {"close", "ret"})}

\* The cache directories: no file, a file for the first symbol, or files for
\* both, the second one an empty or a full frame.
DataDirs ==
    {<<>>}
    \cup {[s \in {"AAPL.US"} |-> f] : f \in MainFrames}
    \cup {[s \in MainSymbols |-> IF s = "AAPL.US" THEN f ELSE g]
          : f \in MainFrames, g \in RefFrames}

\* the directories the long events file is run against
LongDirs == {[s \in MainSymbols |-> IF s = "AAPL.US" THEN f ELSE g]
             : f \in RefFrames, g \in RefFrames}

\* the event of the i-th row of an events file (CPI and NFP alternate)
EventName(i) == IF i % 2 = 1 THEN "CPI" ELSE "NFP"
MainEventDates == {1, MaxDate - 1, MaxDate + 2}

\* 32 monthly events of distinct dates, the last of them within Dates: more
\* than either tail keeps
LongEventsFile ==
    [i \in 1..(IMPACT_EVENTS_TAIL + 2) |->
        [event |-> EventName(i), event_date |-> i - (IMPACT_EVENTS_TAIL + 2) + MaxDate]]

EventsFiles ==
    UNION {{[i \in 1..n |-> [event |-> EventName(i), event_date |-> f[i]]]
            : f \in [1..n -> MainEventDates]} : n \in 0..MaxEvents}

MainInit ==
    /\ script \in {"daily_event_min", "event_day_impact"}
    /\ \/ /\ data_dir \in DataDirs
          /\ events_file \in {None} \cup {Some(f) : f \in EventsFiles}
       \/ /\ data_dir \in LongDirs
          /\ events_file = Some(LongEventsFile)
    /\ symbols = <<>>
    /\ events_tail = <<>>
    /\ df = [columns |-> {}, rows |-> <<>>]
    /\ rows = <<>>
    /\ sym_i = 0
    /\ ev_j = 0
    /\ attempted = <<>>
    /\ last = None
    /\ main_pc = "main"
    /\ out_csv = None
    /\ FnIdle
    /\ ExplainIdle
    /\ TestsIdle

EventsTail == IF script = "daily_event_min" THEN MIN_EVENTS_TAIL ELSE IMPACT_EVENTS_TAIL

\* symbols = discover_symbols(DATA_DIR); events = load_events();
\* events_tail = events.tail(20) (tail(30) in event_day_impact)
MainStart ==
    /\ main_pc = "main"
    /\ symbols' = discover_symbols(data_dir)
    /\ IF symbols' = <<>>
       THEN main_pc' = "returned" /\ UNCHANGED <<events_tail, sym_i>>
       ELSE IF events_file = None
       THEN main_pc' = "raised" /\ UNCHANGED <<events_tail, sym_i>>
       ELSE /\ \E events \in load_events(events_file[1]) :
                 events_tail' = TailN(events, EventsTail)
            /\ sym_i' = 1
            /\ main_pc' = "symbols"
    /\ UNCHANGED <<script, data_dir, events_file, df, rows, ev_j, attempted, last,
                   out_csv, notMain>>

\* for sym in symbols: df = load_cached_price(sym); if df.empty: continue
MainLoadPrice ==
    /\ main_pc = "symbols"
    /\ sym_i <= Len(symbols)
    /\ df' = load_cached_price(data_dir, symbols[sym_i])
    /\ IF Empty(df') \/ events_tail = <<>>
       THEN sym_i' = sym_i + 1 /\ UNCHANGED <<ev_j, main_pc>>
       ELSE ev_j' = 1 /\ main_pc' = "events" /\ UNCHANGED sym_i
    /\ UNCHANGED <<script, data_dir, events_file, symbols, events_tail, rows,
                   attempted, last, out_csv, notMain>>

\* the step to the next event of the inner loop, or to the next symbol
NextPair ==
    IF ev_j < Len(events_tail)
    THEN ev_j' = ev_j + 1 /\ UNCHANGED <<sym_i, main_pc>>
    ELSE sym_i' = sym_i + 1 /\ main_pc' = "symbols" /\ UNCHANGED ev_j

\* daily_event_min.main, one event of the inner loop:
\* st = pre_post_stats(df, e["event_date"]); if st: rows.append({...})
MinPair ==
    /\ script = "daily_event_min"
    /\ main_pc = "events"
    /\ LET e == events_tail[ev_j]
           stats == pre_post_stats(df, e.event_date, PRE_DAYS, POST_DAYS)
           p == pre_post_pos(df, e.event_date)
       IN /\ rows' = AppendIfSt(rows, symbols[sym_i], e, stats)
          /\ attempted' = Append(attempted, <<symbols[sym_i], e>>)
          /\ last' = Some([symbol |-> symbols[sym_i], e |-> e, pos |-> p,
                           pre_len |-> IF p = None THEN 0
                                       ELSE Len(pre_window(df, p[1], PRE_DAYS)),
                           post_len |-> IF p = None THEN 0
                                        ELSE Len(post_window(df, p[1], POST_DAYS)),
                           st |-> stats])
    /\ NextPair
    /\ UNCHANGED <<script, data_dir, events_file, symbols, events_tail, df,
                   out_csv, notMain>>

\* event_day_impact.main, one event of the inner loop:
\* st = event_day_stats(df, e["event_date"]); if st: rows.append({...})
ImpactPair ==
    /\ script = "event_day_impact"
    /\ main_pc = "events"
    /\ LET e == events_tail[ev_j]
           stats == event_day_stats(df, e.event_date)
           p == event_day_pos(df, e.event_date)
       IN /\ rows' = AppendIfSt(rows, symbols[sym_i], e, stats)
          /\ attempted' = Append(attempted, <<symbols[sym_i], e>>)
          /\ last' = Some([symbol |-> symbols[sym_i], e |-> e, pos |-> p,
                           pre_len |-> IF p = None THEN 0
                                       ELSE Len(baseline_window(df, p[1])),
                           post_len |-> 0,
                           st |-> stats])
    /\ NextPair
    /\ UNCHANGED <<script, data_dir, events_file, symbols, events_tail, df,
                   out_csv, notMain>>

\* res = pd.DataFrame(rows); if res.empty: return; ...; res.to_csv(out_csv)
MainSave ==
    /\ main_pc = "symbols"
    /\ sym_i > Len(symbols)
    /\ IF rows = <<>>
       THEN main_pc' = "returned" /\ UNCHANGED out_csv
       ELSE main_pc' = "saved" /\ out_csv' = Some(rows)
    /\ UNCHANGED <<script, data_dir, events_file, symbols, events_tail, df, rows,
                   sym_i, ev_j, attempted, last, notMain>>

MainNext ==
    \/ MainStart
    \/ MainLoadPrice
    \/ MinPair
    \/ ImpactPair
    \/ MainSave

MainSpec == MainInit /\ [][MainNext]_vars


\* ================================================================ claims
AlignCalls == {"daily_event_min.nearest_trading_pos",
               "event_day_impact.nearest_trading_pos",
               "daily_event_study.nearest_pos"}

idx == Index(price_df)
len == Len(price_df.rows)

\* the 0-based positions i whose date and the next are equally far from the
\* event date
TiePositions ==
    {i \in 0..(len - 2) : event_date - At(idx, i) = At(idx, i + 1) - event_date}

\* C1 (as stated): for a target exactly midway between two adjacent
\* observation dates the three aligners return the index of the earlier one.
C1_TieToEarlier ==
    called \in AlignCalls => \A i \in TiePositions : pos = Some(i)

\* C1 (amended): for a target exactly midway between two adjacent observation
\* dates the three aligners return the index of the later one.
C1_TieToLater ==
    called \in AlignCalls => \A i \in TiePositions : pos = Some(i + 1)

C1_Witness ==
    /\ called = "daily_event_min.nearest_trading_pos"
    /\ TiePositions # {}
    /\ \E i \in TiePositions : pos = Some(i + 1)

\* C2: on a non-empty strictly increasing index nearest_trading_pos never
\* returns None; it returns a position in [0, len) whose date is at the
\* minimum absolute distance from the target among all observation dates.
C2_NearestInRange ==
    (called = "daily_event_min.nearest_trading_pos" /\ len > 0) =>
        /\ pos # None
        /\ pos[1] \in 0..(len - 1)
        /\ \A j \in 0..(len - 1) :
              Abs(event_date - At(idx, pos[1])) <= Abs(event_date - At(idx, j))

\* a target strictly between two dates, strictly nearer to the later one
C2_Witness ==
    /\ called = "daily_event_min.nearest_trading_pos"
    /\ len >= 3
    /\ \E i \in 0..(len - 2) :
          /\ At(idx, i) < event_date
          /\ event_date < At(idx, i + 1)
          /\ At(idx, i + 1) - event_date < event_date - At(idx, i)
          /\ pos = Some(i + 1)

\* C3: with pre_days >= 1 and post_days >= 1, pre_post_stats returns a result
\* if and only if the aligned position p satisfies 0 < p < len - 1; an event
\* aligned to the first or to the last observation is rejected.
C3_AcceptedIffInterior ==
    (called = "pre_post_stats" /\ pre_days >= 1 /\ post_days >= 1) =>
        /\ (st # None) <=> (pos # None /\ 0 < pos[1] /\ pos[1] < len - 1)
        /\ (pos = Some(0) \/ pos = Some(len - 1)) => st = None

\* an event aligned to the first observation, with a post-window available
C3_Witness ==
    /\ called = "pre_post_stats"
    /\ pos = Some(0)
    /\ len >= 3
    /\ st = None

\* C4: for an accepted extraction at position p the pre-window is exactly the
\* rows max(0, p - pre_days) .. p - 1 and the post-window exactly the rows
\* p + 1 .. min(len, p + 1 + post_days) - 1: the event day is in neither, the
\* windows are disjoint and contiguous, with 1..pre_days and 1..post_days rows.
C4_Windows ==
    (called = "pre_post_stats" /\ st # None) =>
        LET p == pos[1]
            lo == Max(0, p - pre_days)
            hi == Min(len, p + 1 + post_days)
        IN /\ Len(pre) = p - lo
           /\ \A k \in 1..Len(pre) : pre[k] = At(price_df.rows, lo + k - 1)
           /\ Len(post) = hi - (p + 1)
           /\ \A k \in 1..Len(post) : post[k] = At(price_df.rows, p + k)
           /\ Len(pre) \in 1..pre_days
           /\ Len(post) \in 1..post_days
           /\ \A k \in 1..Len(pre) : pre[k].date < At(idx, p)
           /\ \A k \in 1..Len(post) : post[k].date > At(idx, p)
           /\ st[1].pre_mean = Mean(RetCol(pre))
           /\ st[1].post_mean = Mean(RetCol(post))

\* both windows cut by pre_days and post_days, not by the ends of the series
C4_Witness ==
    /\ called = "pre_post_stats"
    /\ st # None
    /\ pos[1] - pre_days > 0
    /\ pos[1] + 1 + post_days < len
    /\ Len(pre) = pre_days
    /\ Len(post) = post_days

\* C5: impact_ratio is NaN exactly when the baseline is 0 and otherwise is
\* |return at p| / baseline, never a zero or an infinity from a zero baseline;
\* prior returns 0.01, -0.01, 0.02, -0.02, 0.01 and an event-day return of
\* 0.03 give the ratio 3.
C5_ImpactRatio ==
    (called = "event_day_stats" /\ st # None) =>
        LET r == st[1].impact_ratio
            b == st[1].baseline_abs20
            a == Abs(At(price_df.rows, pos[1]).ret)
        IN /\ IsNaN(r) <=> b = FromInt(0)
           /\ b # FromInt(0) =>
                 /\ IsFinite(r)
                 /\ r[1] * b[1] = a * b[2] * r[2]
           /\ (price_df = ExampleFrame /\ pos = Some(5)) =>
                 (b = FromInt(1) /\ r = FromInt(3))

\* a zero baseline under a non-zero event-day return
C5_Witness ==
    /\ called = "event_day_stats"
    /\ st # None
    /\ st[1].baseline_abs20 = FromInt(0)
    /\ st[1].event_day_abs # FromInt(0)
    /\ IsNaN(st[1].impact_ratio)

C5_ExampleReached ==
    /\ called = "event_day_stats"
    /\ price_df = ExampleFrame
    /\ pos = Some(5)
    /\ st # None

\* the null value the mean is compared with, per narrative function
ExplainNull == IF explained = "explain_vol_delta" THEN FromInt(0) ELSE FromInt(1)
Up == IF explained = "explain_vol_delta" THEN "higher" ELSE "larger-than-usual"
Down == IF explained = "explain_vol_delta" THEN "lower" ELSE "smaller-than-usual"
Neutral == IF explained = "explain_vol_delta" THEN "no change" ELSE "typical-sized"
Significant == IF explained = "explain_vol_delta"
               THEN "Statistically significant change"
               ELSE "Statistically significant difference"
NotSignificant == IF explained = "explain_vol_delta"
                  THEN "Not statistically different from zero"
                  ELSE "Not statistically different from typical day"

\* C8 (as stated): for every input the sentence is one of four templates
\* (insufficient-data, significant higher/larger, significant lower/smaller,
\* not-significant); a significant template is chosen exactly when p < 0.05,
\* with the direction given by the sign of mean minus the null value.
C8_FourTemplates ==
    explained \in {"explain_vol_delta", "explain_impact_ratio"} =>
        LET s == sentence[1]
            m == explain_args.mean
        IN /\ \/ s.template = "Not enough data"
              \/ s.template = Significant /\ s.direction \in {Up, Down}
              \/ s.template = NotSignificant
           /\ s.template = Significant <=> FLt(explain_args.p, ALPHA)
           /\ s.template = Significant =>
                 /\ s.direction = Up <=> FGt(m, ExplainNull)
                 /\ s.direction = Down <=> FLt(m, ExplainNull)

\* C8 (amended): the insufficient-data sentence is returned exactly when the
\* mean is NaN, whatever p; for any other mean a significant template is
\* chosen exactly when p < 0.05 (strictly: p = 0.05 and a NaN p are not
\* significant) and the not-significant template otherwise; the significant
\* sentence words the direction by the sign of mean minus the null value:
\* higher/larger, lower/smaller, or, for a mean equal to the null value, the
\* neutral wording (no change / typical-sized).
C8_Templates ==
    explained \in {"explain_vol_delta", "explain_impact_ratio"} =>
        LET s == sentence[1]
            m == explain_args.mean
        IN /\ s.template \in {"Not enough data", Significant, NotSignificant}
           /\ s.template = "Not enough data" <=> IsNaN(m)
           /\ ~IsNaN(m) => (s.template = Significant <=> FLt(explain_args.p, ALPHA))
           /\ explain_args.p \in {ALPHA, NaN} => s.template # Significant
           /\ s.template = Significant =>
                 /\ s.direction = Up <=> FGt(m, ExplainNull)
                 /\ s.direction = Down <=> FLt(m, ExplainNull)
                 /\ s.direction = Neutral <=> m = ExplainNull
                 /\ s.direction \in {Up, Down, Neutral}

\* a significant p with a mean equal to the null value of the impact ratio
C8_Witness ==
    /\ explained = "explain_impact_ratio"
    /\ explain_args.mean = FromInt(1)
    /\ FLt(explain_args.p, ALPHA)
    /\ sentence[1].template = Significant
    /\ sentence[1].direction = "typical-sized"

\* the non-NaN statistics of a pair in a table, in row order
ValidRows(csv, col, key) ==
    {i \in 1..Len(csv) : /\ csv[i].symbol = key[1]
                         /\ csv[i].event = key[2]
                         /\ ~IsNaN(csv[i][col])}

\* the pairs with at least one row in a table
Pairs(csv) == {<<csv[i].symbol, csv[i].event>> : i \in 1..Len(csv)}

ConclusionsOf(conc, key) ==
    {i \in 1..Len(conc) : conc[i].symbol = key[1] /\ conc[i].event = key[2]}

TTestsOf(key, popmean) ==
    {i \in 1..Len(ttest_calls) : /\ ttest_calls[i].symbol = key[1]
                                 /\ ttest_calls[i].event = key[2]
                                 /\ ttest_calls[i].popmean = popmean}

\* what C6 says of one of the two functions, once it has returned conc from
\* the table csv
GateHolds(csv, col, conc, popmean) ==
    /\ \A i \in 1..Len(ttest_calls) :
          ttest_calls[i].popmean = popmean =>
             LET c == ttest_calls[i]
                 valid == ValidRows(csv, col, <<c.symbol, c.event>>)
             IN /\ \A k \in 1..Len(c.x) : ~IsNaN(c.x[k])
                /\ Len(c.x) = Cardinality(valid)
                /\ \A k \in 1..Len(c.x) : \E r \in valid : c.x[k] = csv[r][col]
                /\ Len(c.x) >= MIN_N
    /\ \A i \in 1..Len(conc) :
          LET key == <<conc[i].symbol, conc[i].event>>
              n == Cardinality(ValidRows(csv, col, key))
          IN /\ conc[i].n = Some(n)
             /\ Cardinality(TTestsOf(key, popmean)) = (IF n >= MIN_N THEN 1 ELSE 0)
             /\ n >= MIN_N => /\ conc[i].template # "Not enough observations"
                              /\ conc[i].stats # None
             /\ n < MIN_N => conc[i] = NotEnoughObservations(key[1], key[2], n)
    /\ \A key \in Pairs(csv) :
          LET n == Cardinality(ValidRows(csv, col, key))
          IN /\ n >= 1 => Cardinality(ConclusionsOf(conc, key)) = 1
             /\ TTestsOf(key, popmean) # {} <=> n >= MIN_N

VolReturned == tests_pc \in {"vol_done", "impact_done", "done"}
             \/ (tests_pc = "raised" /\ prepost_csv # None)
ImpactReturned == tests_pc \in {"impact_done", "done"}

\* C6: no row with a NaN statistic is part of a sample; n counts the non-NaN
\* rows only; the t-test is invoked for a group iff n >= MIN_N = 5; a group
\* with n < 5 gets the 'Not enough observations (n=...)' sentence carrying n
\* and no statistic or p-value.  (A group is a group of the groupby, which
\* has at least one non-NaN row.)
C6_SampleGate ==
    /\ VolReturned => GateHolds(prepost_csv[1], "vol_delta", vol_conc, FromInt(0))
    /\ ImpactReturned => GateHolds(impact_csv[1], "impact_ratio", imp_conc, FromInt(1))
    /\ ~VolReturned => ttest_calls = <<>>

\* a pair with exactly MIN_N valid rows and a NaN row is tested on 5 values
C6_Witness ==
    /\ tests_pc = "vol_done"
    /\ \E key \in Pairs(prepost_csv[1]) :
          /\ Cardinality(ValidRows(prepost_csv[1], "vol_delta", key)) = MIN_N
          /\ \E i \in 1..Len(prepost_csv[1]) :
                /\ <<prepost_csv[1][i].symbol, prepost_csv[1][i].event>> = key
                /\ IsNaN(prepost_csv[1][i].vol_delta)
          /\ \E i \in TTestsOf(key, FromInt(0)) : Len(ttest_calls[i].x) = MIN_N

\* C7: every (symbol, event) pair with at least one row in the input table
\* gets exactly one sentence, also a pair whose rows all have a NaN statistic.
C7_OneSentencePerPair ==
    /\ VolReturned =>
          \A key \in Pairs(prepost_csv[1]) :
             Cardinality(ConclusionsOf(vol_conc, key)) = 1
    /\ ImpactReturned =>
          \A key \in Pairs(impact_csv[1]) :
             Cardinality(ConclusionsOf(imp_conc, key)) = 1

\* C9: an accepted extraction with a one-observation window (p = 1 for the
\* pre-window, p = len - 2 for the post-window) does not raise and returns a
\* row: the volatility of that window and vol_delta are NaN, pre_mean,
\* post_mean and ret_delta are defined, and main appends the row.
C9_SingleObservationWindow ==
    (script = "daily_event_min" /\ last # None /\ last[1].st # None) =>
        LET l == last[1]
            d == l.st[1]
        IN /\ l.pre_len = 1 <=> l.pos = Some(1)
           /\ l.post_len = 1 <=> l.pos = Some(Len(data_dir[l.symbol].rows) - 2)
           /\ IsNaN(d.pre_vol) <=> l.pre_len = 1
           /\ IsNaN(d.post_vol) <=> l.post_len = 1
           /\ d.vol_delta = VolNaN <=> (l.pre_len = 1 \/ l.post_len = 1)
           /\ IsFinite(d.pre_mean) /\ IsFinite(d.post_mean) /\ IsFinite(d.ret_delta)
           /\ rows # <<>>
           /\ rows[Len(rows)] = [symbol |-> l.symbol, event |-> l.e.event,
                                 event_date |-> l.e.event_date, st |-> d]
           /\ main_pc \in {"events", "symbols", "saved"}

\* a one-observation pre-window before a longer post-window
C9_Witness ==
    /\ script = "daily_event_min"
    /\ last # None
    /\ last[1].st # None
    /\ last[1].pos = Some(1)
    /\ last[1].post_len >= 2
    /\ IsNaN(last[1].st[1].pre_vol)
    /\ ~IsNaN(last[1].st[1].post_vol)
    /\ rows[Len(rows)].st.vol_delta = VolNaN

\* what the statistics function of the running script returns for a pair
PairStats(frame, e) ==
    IF script = "daily_event_min"
    THEN pre_post_stats(frame, e.event_date, PRE_DAYS, POST_DAYS)
    ELSE event_day_stats(frame, e.event_date)

\* the pairs of the symbols from the i-th on with the selected events from
\* the j-th on, in loop order, the symbols with an empty frame left out
RECURSIVE PairsFrom(_, _)
PairsFrom(i, j) ==
    IF i > Len(symbols) THEN <<>>
    ELSE IF j > Len(events_tail) \/ Empty(data_dir[symbols[i]]) THEN PairsFrom(i + 1, 1)
    ELSE <<<<symbols[i], events_tail[j]>>>> \o PairsFrom(i, j + 1)

RECURSIVE AcceptedRows(_)
AcceptedRows(pairs) ==
    IF pairs = <<>> THEN <<>>
    ELSE LET sym == Head(pairs)[1]
             e == Head(pairs)[2]
             stats == PairStats(data_dir[sym], e)
         IN (IF stats = None THEN <<>>
             ELSE <<[symbol |-> sym, event |-> e.event,
                     event_date |-> e.event_date, st |-> stats[1]]>>)
            \o AcceptedRows(Tail(pairs))

\* C10: the loops of the two mains attempt every (symbol, selected event)
\* pair in turn; a pair that yields None (unresolvable alignment, insufficient
\* window) contributes no row and does not stop the loop, which never raises:
\* the final table has exactly one row per accepted pair.
C10_OneRowPerAcceptedPair ==
    /\ main_pc = "raised" => (events_file = None /\ attempted = <<>>)
    /\ (main_pc \in {"returned", "saved"} /\ symbols # <<>>) =>
          /\ attempted = PairsFrom(1, 1)
          /\ rows = AcceptedRows(attempted)
          /\ main_pc = "saved" <=> rows # <<>>
          /\ main_pc = "saved" => out_csv = Some(rows)
    /\ main_pc \in {"events", "symbols"} =>
          /\ \E k \in 0..Len(PairsFrom(1, 1)) : attempted = SubSeq(PairsFrom(1, 1), 1, k)
          /\ rows = AcceptedRows(attempted)

\* a symbol with an empty frame and a rejected pair come before an accepted one
C10_Witness ==
    /\ main_pc = "saved"
    /\ Len(symbols) = 2
    /\ Empty(data_dir[symbols[1]])
    /\ Len(attempted) >= 2
    /\ PairStats(data_dir[attempted[1][1]], attempted[1][2]) = None
    /\ \E k \in 2..Len(attempted) :
          PairStats(data_dir[attempted[k][1]], attempted[k][2]) # None
    /\ rows # <<>>
    /\ Len(rows) < Len(attempted)

\* the summary file as an earlier run left it
EarlierSummary == {None, Some(<<TextLine("summary of an earlier run")>>)}

\* C11: basic_tests.main refuses to proceed when either result table is
\* absent: it raises a FileNotFoundError naming the missing file and the
\* script that produces it, prints no conclusions and leaves the summary file
\* as it was, even when the other table exists and its tests already ran.
C11_MissingTableIsFatal ==
    /\ tests_pc = "raised" =>
          /\ prepost_csv = None \/ impact_csv = None
          /\ tests_error = Some(IF prepost_csv = None
                                THEN MissingFile(PREPOST_CSV, "daily_event_min.py")
                                ELSE MissingFile(IMPACT_CSV, "event_day_impact.py"))
          /\ printed = <<>>
          /\ summary_txt \in EarlierSummary
    /\ prepost_csv = None => tests_pc \in {"main", "raised"}
    /\ impact_csv = None => tests_pc \in {"main", "vol_done", "raised"}
    /\ tests_pc # "raised" => tests_error = None
    /\ tests_pc # "done" => (printed = <<>> /\ summary_txt \in EarlierSummary)

\* the impact table is absent, the pre/post table exists and its tests ran
C11_Witness ==
    /\ tests_pc = "raised"
    /\ prepost_csv # None
    /\ impact_csv = None
    /\ vol_conc # <<>>
    /\ ttest_calls # <<>>
    /\ summary_txt # None
    /\ tests_error = Some(MissingFile(IMPACT_CSV, "event_day_impact.py"))

\* the (symbol, event) keys of a sequence of sentences
KeysOf(conc) == [i \in 1..Len(conc) |-> <<conc[i].symbol, conc[i].event>>]

\* ascending by symbol, then by event name
KeysAscending(keys) ==
    \A i \in 1..Len(keys), j \in 1..Len(keys) :
        i < j => \/ StrLt(keys[i][1], keys[j][1])
                 \/ keys[i][1] = keys[j][1] /\ StrLt(keys[i][2], keys[j][2])

\* the table with its rows i and i + 1 exchanged
SwapRows(table, i) ==
    [k \in 1..Len(table) |->
        IF k = i THEN table[i + 1] ELSE IF k = i + 1 THEN table[i] ELSE table[k]]

\* the sentences keep their keys when two adjacent rows of the table are
\* exchanged; the tables of OrderSpec are closed under these exchanges,
\* which generate every permutation
SwapInvariant(table, conc, run(_)) ==
    \A i \in 1..(Len(table) - 1) :
        \A outcomes \in run(SwapRows(table, i)) :
            KeysOf(Conclusions(outcomes)) = KeysOf(conc)

\* C12: the sentences returned by run_vol_delta_tests and
\* run_impact_ratio_tests are in ascending (symbol, event) order, one per
\* group, and the groups and their order are the same for every permutation
\* of the rows of the input table.
C12_SortedGroups ==
    /\ tests_pc \in {"vol_done", "impact_done", "done"} =>
          /\ KeysAscending(KeysOf(vol_conc))
          /\ {KeysOf(vol_conc)[i] : i \in 1..Len(vol_conc)}
                = GroupKeys(DropNa(prepost_csv[1], "vol_delta"))
          /\ SwapInvariant(prepost_csv[1], vol_conc, run_vol_delta_tests)
    /\ tests_pc \in {"impact_done", "done"} =>
          /\ KeysAscending(KeysOf(imp_conc))
          /\ {KeysOf(imp_conc)[i] : i \in 1..Len(imp_conc)}
                = GroupKeys(DropNa(impact_csv[1], "impact_ratio"))
          /\ SwapInvariant(impact_csv[1], imp_conc, run_impact_ratio_tests)

\* three groups whose rows come in another order than their keys
C12_Witness ==
    /\ tests_pc = "impact_done"
    /\ Len(vol_conc) = 3
    /\ Len(imp_conc) = 3
    /\ prepost_csv[1][1].symbol = "SPY.US"
    /\ prepost_csv[1][Len(prepost_csv[1])].event = "CPI"
    /\ prepost_csv[1][Len(prepost_csv[1])].symbol = "AAPL.US"
    /\ KeysOf(vol_conc) = <<<<"AAPL.US", "CPI">>, <<"AAPL.US", "NFP">>, <<"SPY.US", "CPI">>>>

\* the observations at the indices max(0, p - 20) .. p - 1 of the series
PriorTwenty(frame, p) ==
    LET lo == IF p - 20 > 0 THEN p - 20 ELSE 0
    IN [i \in 1..(p - lo) |-> frame.rows[lo + i]]

\* C13: event_day_stats returns None for an event aligned to position 0 and,
\* for every p > 0, takes the baseline as the median of the absolute returns
\* of exactly the observations at indices max(0, p-20) .. p-1: never the
\* event day, at most 20 prior observations, fewer (down to 1) when fewer
\* exist.
C13_BaselineWindow ==
    called = "event_day_stats" =>
        /\ pos = Some(0) => st = None
        /\ st = None <=> (pos = None \/ pos = Some(0))
        /\ st # None =>
              LET p == pos[1]
                  prior == PriorTwenty(price_df, p)
              IN /\ pre = prior
                 /\ Len(pre) = (IF p < 20 THEN p ELSE 20)
                 /\ \A i \in 1..Len(pre) : pre[i].date < At(price_df.rows, p).date
                 /\ st[1].baseline_abs20 = Median(AbsCol(RetCol(prior)))
                 /\ st[1].event_day_ret = FromInt(At(price_df.rows, p).ret)

\* more than 20 prior observations exist and the oldest ones are left out
C13_Witness ==
    /\ called = "event_day_stats"
    /\ st # None
    /\ pos[1] > 20
    /\ Len(pre) = 20
    /\ pre[1] = At(price_df.rows, pos[1] - 20)
    /\ st[1].baseline_abs20 # Median(AbsCol(RetCol(Slice(price_df.rows, 0, pos[1]))))

\* a single prior observation is the whole baseline
C13_OnePrior ==
    /\ called = "event_day_stats"
    /\ pos = Some(1)
    /\ st # None
    /\ Len(pre) = 1

\* C14: for every series, event date, pre_days >= 1 and post_days >= 1,
\* window_stats returns None exactly when pre_post_stats returns None, and
\* otherwise both return the same six field values.
C14_SameAsPrePostStats ==
    /\ called = "window_stats" =>
          /\ pre_days >= 1 /\ post_days >= 1
          /\ st = pre_post_stats(price_df, event_date, pre_days, post_days)
    /\ called = "pre_post_stats" =>
          /\ pre_days >= 1 /\ post_days >= 1
          /\ st = window_stats(price_df, event_date, pre_days, post_days)

\* window_stats on an event aligned to position 0 of a series with later
\* observations: the case pre_post_stats rejects explicitly
C14_Witness ==
    /\ called = "window_stats"
    /\ Len(price_df.rows) >= 2
    /\ "ret" \in price_df.columns
    /\ nearest_pos(Index(price_df), event_date) = Some(0)
    /\ st = None

\* both return a row
C14_RowReached ==
    /\ called = "window_stats"
    /\ st # None
    /\ st[1].vol_delta # VolNaN

====
